---- MODULE Spec2Model ----
(***************************************************************************)
(* State-machine model of pypint.solvers.sdc.Sdc (Spectral Deferred        *)
(* Corrections): init(), run(), _time_step() and _sdc_step() together with *)
(* the collaborators they call into.  Arithmetic is carried out on an      *)
(* integer grid: every problem / configuration drawn by init() is such     *)
(* that all node time points are integers, so that the formulas of the     *)
(* source are evaluated exactly.  Arrays keep the 0-based indices of the   *)
(* source and are functions on 0..(size-1).                                *)
(***************************************************************************)
EXTENDS Integers, Sequences, FiniteSets, TLC

VARIABLES
    pc,               \* position of the caller: constructed, init_raised, ready, while, steps,
                      \* post, done, raised
    kwargs,           \* the options of the init() call
    problem,          \* the IInitialValueProblem handed to init()
    type_,            \* Sdc._type
    num_time_steps,   \* Sdc._num_time_steps
    num_nodes_,       \* Sdc.__num_nodes
    num_points,       \* Sdc.__num_points
    State_num_points, \* class attribute Sdc.State.num_points
    integrator,       \* Sdc._integrator (nodes_type and weights)
    time_points,      \* Sdc.__time_points: "steps" and "nodes"
    deltas,           \* Sdc.__deltas: "I", "t" and "n"
    exact,            \* Sdc.__exact
    states,           \* IIterativeTimeSolver._states, a sequence of Sdc.State
    heap,             \* the numpy arrays bound to State._solution, by reference
    threshold,        \* Sdc._threshold (ThresholdCheck)
    iter,             \* local _iter of run()
    t,                \* loop variable t of run()
    n,                \* loop variable n of _time_step()
    writes,           \* global indices written by solution_at in the running iteration
    last,             \* locals of the most recent _sdc_step call
    outcome,          \* which report branch run() took, or the exception it raised
    solution_,        \* local _solution of run(): the IterativeSolution it fills
    trajectory,       \* a TrajectorySolutionData: _data, _numeric_type, _dim, _finalized
    called,           \* the method of the TrajectorySolutionData called last
    raised,           \* the exception that call ended with, "none" when it returned
    checked,          \* what _check_consistency ended with in that call, "skipped" without it
    cell,             \* an Sdc.State on its own: its _solution, _error and _residual arrays
    access,           \* the accessor of that state called last, its arguments and its result
    base,             \* an IntegratorBase: its _nodes and _weights_function
    base_call,        \* the latest IntegratorBase.init call: the attributes before it, the
                      \* objects it called init() on, its exception and its arguments
    solvers,          \* two Sdc objects side by side: their options, their states' arrays
    shared,           \* what the two have in common: the class attribute
                      \* Sdc.State.num_points and the default integrator of init
    pair_call,        \* the method called last on one of the two, and how it ended
    prototype,        \* a pySDC SDC object: its attributes
    prototype_call    \* the latest call on it: setter or solve, its value and its result

vars == <<pc, kwargs, problem, type_, num_time_steps, num_nodes_, num_points, State_num_points,
          integrator, time_points, deltas, exact, states, heap, threshold, iter, t, n,
          writes, last, outcome, solution_, trajectory, called, raised, checked, cell, access,
          base, base_call, solvers, shared, pair_call, prototype, prototype_call>>

\* the variables of the solver and those of the trajectory storage
sdc_vars == <<pc, kwargs, problem, type_, num_time_steps, num_nodes_, num_points,
              State_num_points, integrator, time_points, deltas, exact, states, heap,
              threshold, iter, t, n, writes, last, outcome, solution_>>

storage_vars == <<trajectory, called, raised, checked>>

\* the variables of a state object accessed on its own
accessor_vars == <<cell, access>>

\* the variables of an IntegratorBase on its own
base_vars == <<base, base_call>>

\* the variables of two solvers side by side
pair_vars == <<solvers, shared, pair_call>>

\* the variables of the pySDC prototype
prototype_vars == <<prototype, prototype_call>>

\* what the actions of one part leave alone: the variables of the other parts
beside_sdc == <<storage_vars, accessor_vars, base_vars, pair_vars, prototype_vars>>
beside_storage == <<sdc_vars, accessor_vars, base_vars, pair_vars, prototype_vars>>
beside_accessors == <<sdc_vars, storage_vars, base_vars, pair_vars, prototype_vars>>
beside_base == <<sdc_vars, storage_vars, accessor_vars, pair_vars, prototype_vars>>
beside_pair == <<sdc_vars, storage_vars, accessor_vars, base_vars, prototype_vars>>
beside_prototype == <<sdc_vars, storage_vars, accessor_vars, base_vars, pair_vars>>

\* ------------------------------------------------------------------------
\* Bounds of the model
\* ------------------------------------------------------------------------
MaxSteps == 2        \* num_time_steps is drawn from 1..MaxSteps
MaxNodes == 3        \* num_nodes is drawn from 2..MaxNodes
MaxIterations == 3   \* max_threshold (iteration cap) is drawn from 1..MaxIterations

\* ------------------------------------------------------------------------
\* Values and arrays
\* ------------------------------------------------------------------------
None == <<>>
Some(v) == <<v>>

Abs(x) == IF x < 0 THEN -x ELSE x

\* np.zeros(k)
Zeros(k) == [j \in 0..(k - 1) |-> 0]

\* ndarray.size
Size(a) == Cardinality(DOMAIN a)

\* a[lo:hi] re-based at 0
Slice(a, lo, hi) == [j \in 0..(hi - lo - 1) |-> a[lo + j]]

\* np.where(mask, x, y)
Where(mask, x, y) == [j \in DOMAIN mask |-> IF mask[j] THEN x[j] ELSE y[j]]

\* np.linspace(start, stop, num); the model only draws intervals the grid divides
linspace(start, stop, num) ==
    [k \in 0..(num - 1) |-> start + k * ((stop - start) \div (num - 1))]

RECURSIVE SumTo(_, _, _)
SumTo(f, lo, hi) == IF hi < lo THEN 0 ELSE f[hi] + SumTo(f, lo, hi - 1)

\* ------------------------------------------------------------------------
\* Node provider and quadrature (collaborators of the solver)
\* ------------------------------------------------------------------------
NodesTypes == {"uniform", "graded"}

\* canonical node j of the provider, on the canonical interval [0, NodeSpan]
CanonicalNode(nodes_type, j) ==
    IF nodes_type = "uniform" THEN j ELSE (j * (j + 1)) \div 2

NodeSpan(nodes_type, num) == CanonicalNode(nodes_type, num - 1)

\* INodes.nodes once the provider has been transformed onto interval
NodesOn(nodes_type, num, interval) ==
    [j \in 0..(num - 1) |->
        interval[0] + ((interval[1] - interval[0]) * CanonicalNode(nodes_type, j))
                         \div NodeSpan(nodes_type, num)]

\* the provider object: INodes.init(num_nodes) followed by transform(interval)
NodesObject(nodes_type, num, interval) ==
    [type |-> nodes_type, num_nodes |-> num, interval |-> interval,
     nodes |-> NodesOn(nodes_type, num, interval)]

\* setter INodes.interval: the same provider moved onto another interval
SetInterval(nodes_obj, interval) ==
    NodesObject(nodes_obj.type, nodes_obj.num_nodes, interval)

\* quadrature weight of node j for the integral from node m-1 to node m
Weight(m, j) == IF j = m THEN 2 ELSE IF j = m - 1 THEN 1 ELSE -1

\* IWeightFunction.evaluate(nodes): the weight matrix, rows m = 1..num-1
WeightMatrix(num) == [m \in 1..(num - 1) |-> [j \in 0..(num - 1) |-> Weight(m, j)]]

\* the weight functions: the integer stencil above, and the weights of the
\* interpolating polynomial on equidistant nodes
WeightsTypes == {"stencil", "polynomial"}

\* the polynomial weights of node j for the integral from node m-1 to node m
\* on two or three equidistant nodes of the unit interval, in 24ths
PolynomialWeight(num, m, j) ==
    IF num = 2 THEN 12
    ELSE IF j = 1 THEN 8
    ELSE IF j = m THEN 5
    ELSE IF j = m - 1 THEN 5
    ELSE 0 - 1

PolynomialWeightMatrix(num) ==
    [m \in 1..(num - 1) |-> [j \in 0..(num - 1) |-> PolynomialWeight(num, m, j)]]

\* the common denominator of the weights
WeightDivisor(weights_type) == IF weights_type = "polynomial" THEN 24 ELSE 1

\* SdcIntegrator.evaluate(data, last_node_index): integral from node
\* last_node_index-1 to node last_node_index
IntegratorEvaluate(intg, data, last_node_index) ==
    SumTo([j \in DOMAIN data |-> intg.weights[last_node_index][j] * data[j]],
          0, Size(data) - 1) \div intg.divisor

\* ------------------------------------------------------------------------
\* Problem (collaborator of the solver)
\* ------------------------------------------------------------------------
\* right hand sides F(t, u) = a*t + c + b*(((u mod 5) mod 3) - 1)
RightHandSides ==
    { [a |-> 0, b |-> 0, c |-> -1],
      [a |-> 1, b |-> 0, c |-> 0],
      [a |-> 0, b |-> 1, c |-> 1],
      [a |-> 1, b |-> -1, c |-> 0] }

\* IProblem.evaluate(time, phi_of_time, partial)
evaluate(p, time, phi_of_time, partial) ==
    LET expl_part == p.rhs.a * time + p.rhs.c
        impl_part == p.rhs.b * (((phi_of_time % 5) % 3) - 1)
    IN  IF partial = "expl" THEN expl_part
        ELSE IF partial = "impl" THEN impl_part
        ELSE expl_part + impl_part

\* problem.exact(t0, t1)
exact_solution(p, t0, t1) == p.initial_value + p.rhs.c * (t1 - p.time_start)

\* problem_has_exact_solution / problem_has_direct_implicit
problem_has_exact_solution(p) == p.has_exact
problem_has_direct_implicit(p) == p.has_direct_implicit

\* problem.direct_implicit(phis_of_time, delta_node, delta_step, integral):
\* closed form of the implicit equation for a right hand side without u
direct_implicit(p, phis_of_time, delta_node, delta_step, integral) ==
    phis_of_time[2] + delta_step * integral

\* ------------------------------------------------------------------------
\* Root finder and IProblem.implicit_solve
\* ------------------------------------------------------------------------
SolverReach == 12    \* the root finder looks for a root within this distance of x0

\* the arguments the root finder may try when started at x0
SearchRange(x0) == (x0[0] - SolverReach)..(x0[0] + SolverReach)

\* the arguments at which fun vanishes; fun is tabulated over its arguments
ZerosOf(fun) == {x \in DOMAIN fun : fun[x] = 0}

\* find_root(fun, x0): the root nearest to the starting guess, or failure with
\* the starting guess as last estimate
find_root(fun, x0) ==
    LET roots == ZerosOf(fun)
        nearest == {x \in roots : \A y \in roots : Abs(x - x0[0]) <= Abs(y - x0[0])}
    IN  IF roots = {}
        THEN [x |-> x0, success |-> FALSE]
        ELSE [x |-> [j \in {0} |-> CHOOSE x \in nearest : \A y \in nearest : x <= y],
              success |-> TRUE]

\* variant of implicit_solve that gives up the estimate of a failed search
implicit_solve_ResetOnFailure(next_x, func) ==
    IF find_root(func, next_x).success
    THEN find_root(func, next_x).x
    ELSE [j \in {0} |-> 0]

\* IProblem.implicit_solve(next_x, func): sol.x whether or not sol.success
implicit_solve(next_x, func) == find_root(func, next_x).x

\* ------------------------------------------------------------------------
\* ThresholdCheck
\* ------------------------------------------------------------------------
\* ThresholdCheck.check(residual=..., iterations=...) with conditions
\* ("residual", "iterations"): the conditions reached, None when there is none
threshold_check(th, residual, iterations) ==
    LET hit == (IF residual <= th.min_threshold THEN {"residual"} ELSE {})
               \cup (IF iterations >= th.max_threshold THEN {"iterations"} ELSE {})
    IN  [th EXCEPT !.reached = IF hit = {} THEN None ELSE Some(hit)]

\* ThresholdCheck.has_reached()
has_reached(th) == th.reached

\* ------------------------------------------------------------------------
\* Solver state containers
\* ------------------------------------------------------------------------
\* Sdc.State.__init__(iteration): arrays sized by the class attribute
\* num_points; _solution is the reference sol of an array on the heap
NewState(iteration, class_num_points, sol) ==
    [iteration |-> iteration,
     solution |-> sol,
     error |-> Zeros(class_num_points),
     residual |-> Zeros(class_num_points),
     reduction_of_solution |-> Some(0),
     reduction_of_error |-> Some(0)]

\* variant of ArrayCopy that starts the iteration from an array of zeros
ArrayCopy_Zeros(h, ref) == [heap |-> Append(h, Zeros(Size(h[ref]))), ref |-> Len(h) + 1]

\* variant of ArrayCopy that hands back the array itself
ArrayCopy_Alias(h, ref) == [heap |-> h, ref |-> ref]

\* ndarray.copy(): a new array on the heap h with the elements of h[ref]
ArrayCopy(h, ref) == [heap |-> Append(h, h[ref]), ref |-> Len(h) + 1]

\* IIterativeTimeSolver.current_state / previous_state / initial_state
current_state(sts) == sts[Len(sts)]
previous_state(sts) == sts[Len(sts) - 1]
initial_state(sts) == sts[1]

\* global index of node n_ of time step t_ with num nodes per step
GlobalIndex(t_, n_, num) == t_ * (num - 1) + n_

\* Sdc.num_nodes: the node count of the integrator's node provider
num_nodes(intg) == intg.nodes_type.num_nodes

\* Sdc.is_implicit / is_explicit / is_semi_implicit
is_implicit(ty) == ty = "impl"
is_explicit(ty) == ty = "expl"
is_semi_implicit(ty) == ty = "semi"

\* ------------------------------------------------------------------------
\* Sdc.__init__
\* ------------------------------------------------------------------------
NoStep ==
    [i |-> 0, i0 |-> 0, i1 |-> 0, t |-> 0, n |-> 0, dt |-> 0, t0 |-> 0, t1 |-> 0,
     path |-> "none", integrate_values |-> None, eval_time |-> 0, integral |-> 0,
     expl_term |-> 0, guess |-> None, sol |-> None, success |-> TRUE,
     zeros |-> {}, value |-> 0, dI |-> 0, residual_values |-> None,
     residual_integral |-> 0, prev_ref |-> 0, cur_ref |-> 0]

Init ==
    /\ pc = "constructed"
    /\ kwargs = None
    /\ problem = None
    /\ type_ = "expl"
    /\ num_time_steps = 1
    /\ num_nodes_ = 3
    /\ num_points = 0
    /\ State_num_points = 0
    /\ integrator = None
    /\ time_points = [steps |-> Zeros(0), nodes |-> Zeros(0)]
    /\ deltas = [I |-> 0, t |-> Zeros(0), n |-> Zeros(0)]
    /\ exact = Zeros(0)
    /\ states = <<>>
    /\ heap = <<>>
    /\ threshold = [min_threshold |-> 0, max_threshold |-> 10, reached |-> None]
    /\ iter = 0
    /\ t = 0
    /\ n = 0
    /\ writes = <<>>
    /\ last = NoStep
    /\ outcome = "none"
    /\ solution_ = None
    /\ trajectory = [data |-> <<>>, numeric_type |-> None, dim |-> None, finalized |-> FALSE]
    /\ called = "none"
    /\ raised = "none"
    /\ checked = "skipped"
    /\ cell = None
    /\ access = [method |-> "none", index |-> 0, value |-> None, raised |-> "none",
                 returned |-> None]
    /\ base = [nodes |-> None, weights_function |-> None]
    /\ base_call = [before |-> [nodes |-> None, weights_function |-> None], inited |-> {},
                    raised |-> "none", made |-> FALSE,
                    args |-> [nodes_type |-> "", num |-> "", weights_function |-> "",
                              interval |-> None]]
    /\ solvers = [x \in {"A", "B"} |->
                     [num_time_steps |-> 1, num_nodes_ |-> 3, num_points |-> 0,
                      integrator |-> "none", deltas_n |-> 0, states |-> <<>>,
                      reached |-> FALSE]]
    /\ shared = [State_num_points |-> 0, integrator |-> [nodes_type |-> [num_nodes |-> None]]]
    /\ pair_call = [solver |-> "none", method |-> "none", raised |-> FALSE]
    /\ prototype = [timeSteps |-> 10, numSubsteps |-> 3, timeRange |-> <<0, 1>>,
                    SDC__timeSteps |-> None, SDC__numSubsteps |-> None,
                    SDC__timeRange |-> None]
    /\ prototype_call = [method |-> "none", value |-> None, raised |-> "none",
                         swept |-> None]

\* ------------------------------------------------------------------------
\* Sdc.init
\* ------------------------------------------------------------------------
\* inner loop of init over the nodes _n of time step _t; acc holds the
\* arrays __time_points["nodes"] and __deltas["n"]
RECURSIVE NodeLoop(_, _, _, _, _)
NodeLoop(acc, nodes_obj, t_, n_, num) ==
    IF n_ >= num - 1
    THEN acc
    ELSE LET i_ == GlobalIndex(t_, n_, num)
         IN  NodeLoop([nodes |-> [acc.nodes EXCEPT ![i_] = nodes_obj.nodes[n_]],
                       n |-> [acc.n EXCEPT ![i_ + 1] = nodes_obj.nodes[n_ + 1] - nodes_obj.nodes[n_]],
                       provider |-> nodes_obj],
                      nodes_obj, t_, n_ + 1, num)

\* outer loop of init over the time steps: the copy of the node provider is
\* moved onto step t_ before its nodes are read
RECURSIVE StepLoop(_, _, _, _, _)
StepLoop(acc, steps, t_, num_steps, num) ==
    IF t_ >= num_steps
    THEN acc
    ELSE LET moved == SetInterval(acc.provider, [k \in 0..1 |-> steps[t_ + k]])
         IN  StepLoop(NodeLoop([acc EXCEPT !.provider = moved], moved, t_, 0, num),
                      steps, t_ + 1, num_steps, num)

\* variant of TimeGrid that leaves the last time point as allocated
TimeGrid_NoLast(p, intg, num_steps, npoints) ==
    LET steps == linspace(p.time_start, p.time_end, num_steps + 1)
        filled == StepLoop([nodes |-> Zeros(npoints),
                            n |-> Zeros(num_steps * (num_nodes(intg) - 1) + 1),
                            provider |-> intg.nodes_type],
                           steps, 0, num_steps, num_nodes(intg))
    IN  [steps |-> steps, nodes |-> filled.nodes, n |-> filled.n]

\* the time grid computed by init (lines "compute time step and node distances")
TimeGrid(p, intg, num_steps, npoints) ==
    LET steps == linspace(p.time_start, p.time_end, num_steps + 1)
        filled == StepLoop([nodes |-> Zeros(npoints),
                            n |-> Zeros(num_steps * (num_nodes(intg) - 1) + 1),
                            provider |-> intg.nodes_type],
                           steps, 0, num_steps, num_nodes(intg))
    IN  [steps |-> steps,
         nodes |-> [filled.nodes EXCEPT ![npoints - 1] =
                        filled.provider.nodes[filled.provider.num_nodes - 1]],
         n |-> filled.n]

\* variant of NumPoints counting the shared step boundaries twice
NumPoints_PerStep(num_steps, num) == num_steps * num

\* "initialize helper variables": the number of global points
NumPoints(num_steps, num) == num_steps * (num - 1) + 1

\* the width of the whole interval as stored in __deltas["I"]
DeltaI(p, num_steps) == p.time_end - p.time_start

\* IntegratorBase.init(nodes_type, num_nodes, weights_function, interval)
IntegratorInit(nodes_type, num, weights_type, interval) ==
    [nodes_type |-> NodesObject(nodes_type, num, interval),
     nodes |-> NodesOn(nodes_type, num, interval),
     weights |-> IF weights_type = "polynomial" THEN PolynomialWeightMatrix(num)
                 ELSE WeightMatrix(num),
     divisor |-> WeightDivisor(weights_type)]

TypeOptions == {"expl", "impl", "semi"}

\* the problems and options init is called with: the interval is a multiple
\* of the node grid, so that every node time point is an integer
Problems(num_steps, num, nodes_type) ==
    { [time_start |-> ts, time_end |-> ts + num_steps * NodeSpan(nodes_type, num),
       initial_value |-> 1, rhs |-> f, has_exact |-> ex, has_direct_implicit |-> FALSE] :
         ts \in {0, 1}, f \in RightHandSides, ex \in BOOLEAN }
    \cup
    { [time_start |-> 0, time_end |-> num_steps * NodeSpan(nodes_type, num),
       initial_value |-> 1, rhs |-> f, has_exact |-> FALSE, has_direct_implicit |-> TRUE] :
         f \in {g \in RightHandSides : g.b = 0} }

\* the exceptions init can end with for the given counts, none when it
\* completes: State() allocates np.zeros(num_points), _dt divides by the
\* number of time steps, linspace takes num_time_steps + 1 samples of which
\* the first two are read, the node provider is initialised with num_nodes
\* nodes and the last time point is written at index -1
InitError(num_steps, num) ==
    IF NumPoints(num_steps, num) < 0 THEN {"ValueError"}
    ELSE IF num_steps = 0 THEN {"ZeroDivisionError"}
    ELSE IF num_steps < -1 THEN {"ValueError"}
    ELSE IF num_steps = -1 THEN {"IndexError"}
    ELSE IF num <= 0 THEN {"ValueError", "IndexError"}
    ELSE {}

init(p, kw_type, kw_num_time_steps, kw_num_nodes, kw_nodes_type, kw_weights_type, kw_max_threshold) ==
    /\ pc = "constructed"
    /\ kwargs' = [type |-> kw_type, num_time_steps |-> kw_num_time_steps,
                  num_nodes |-> kw_num_nodes]
    /\ LET new_type == IF kw_type \in {"impl", "expl", "semi"} THEN kw_type ELSE type_
           npoints == NumPoints(kw_num_time_steps, kw_num_nodes)
           steps == linspace(p.time_start, p.time_end, kw_num_time_steps + 1)
           intg == IntegratorInit(kw_nodes_type, kw_num_nodes, kw_weights_type,
                                  [k \in 0..1 |-> steps[k]])
           grid == TimeGrid(p, intg, kw_num_time_steps, npoints)
           dI == DeltaI(p, kw_num_time_steps)
       IN  /\ problem' = p
           /\ threshold' = [threshold EXCEPT !.max_threshold = kw_max_threshold]
           /\ type_' = new_type
           /\ num_time_steps' = kw_num_time_steps
           /\ num_nodes_' = kw_num_nodes
           /\ num_points' = npoints
           /\ State_num_points' = npoints
           /\ IF npoints >= 0
              THEN /\ heap' = Append(heap, [j \in 0..(npoints - 1) |-> p.initial_value])
                   /\ states' = Append(states,
                          [NewState(0, npoints, Len(heap) + 1) EXCEPT
                              !.error = None, !.residual = None,
                              !.reduction_of_solution = None, !.reduction_of_error = None])
                   /\ exact' = Zeros(npoints)
              ELSE \* State.__init__ raises before the append
                   UNCHANGED <<heap, states, exact>>
           /\ IF InitError(kw_num_time_steps, kw_num_nodes) = {}
              THEN /\ deltas' = [I |-> dI,
                                 t |-> [k \in 0..(kw_num_time_steps - 1) |->
                                           dI \div kw_num_time_steps],
                                 n |-> grid.n]
                   /\ integrator' = intg
                   /\ time_points' = [steps |-> grid.steps, nodes |-> grid.nodes]
                   /\ pc' = "ready"
                   /\ outcome' = outcome
              ELSE /\ deltas' = IF npoints >= 0 THEN [deltas EXCEPT !.I = dI] ELSE deltas
                   /\ UNCHANGED <<integrator, time_points>>
                   /\ pc' = "init_raised"
                   /\ outcome' \in InitError(kw_num_time_steps, kw_num_nodes)
    /\ UNCHANGED <<beside_sdc, iter, t, n, writes, last, solution_>>

\* ------------------------------------------------------------------------
\* Sdc._sdc_step: the pieces of the computation
\* ------------------------------------------------------------------------
\* variant of CopyMask that leaves node 0 to the previous iteration
CopyMask_SkipFirst(n_, num) == [j \in 0..(num - 1) |-> 0 < j /\ j < n_]

\* _copy_mask: True for the n_ nodes before the current one
CopyMask(n_, num) == [j \in 0..(num - 1) |-> j < n_]

\* variant of IntegrateValues that takes every node from the previous iteration
IntegrateValues_AllPrevious(cur, prev, t_, n_, num) ==
    LET i0 == GlobalIndex(t_, n_, num) - n_
        i1 == (t_ + 1) * (num - 1)
    IN  Slice(prev, i0, i1 + 1)

\* "gather values for integration": the masked blend of the two iterations
\* over the nodes of time step t_
IntegrateValues(cur, prev, t_, n_, num) ==
    LET i0 == GlobalIndex(t_, n_, num) - n_
        i1 == (t_ + 1) * (num - 1)
    IN  Where(CopyMask(n_, num), Slice(cur, i0, i1 + 1), Slice(prev, i0, i1 + 1))

\* the time argument of problem.evaluate for the quadrature input
EvalTime(intg, n_) == intg.nodes[n_ - 1]

\* "evaluate problem for integration values"
ProblemValues(p, intg, n_, vals) ==
    [j \in DOMAIN vals |-> evaluate(p, EvalTime(intg, n_), vals[j], "none")]

\* the node distance _dt used by the step
DeltaNode(dl, n_) == dl.n[n_]

\* variant of ExplicitStep that does not subtract the previous iteration's F
ExplicitStep_NoSubtraction(p, cur, prev, i_, dt, t0, dI, integral) ==
    cur[i_ - 1] + dt * evaluate(p, t0, cur[i_ - 1], "none") + dI * integral

\* variant of ExplicitStep that leaves out the quadrature term
ExplicitStep_NoIntegral(p, cur, prev, i_, dt, t0, dI, integral) ==
    cur[i_ - 1]
    + dt * (evaluate(p, t0, cur[i_ - 1], "none") - evaluate(p, t0, prev[i_ - 1], "none"))

\* explicit step
ExplicitStep(p, cur, prev, i_, dt, t0, dI, integral) ==
    cur[i_ - 1]
    + dt * (evaluate(p, t0, cur[i_ - 1], "none") - evaluate(p, t0, prev[i_ - 1], "none"))
    + dI * integral

\* variant of ImplicitExplTerm that evaluates the previous iteration at the
\* old node
ImplicitExplTerm_OldNode(p, cur, prev, i_, dt, t1, dI, integral) ==
    cur[i_ - 1] - dt * evaluate(p, t1, prev[i_ - 1], "none") + dI * integral

\* implicit step: _expl_term and the function _func handed to implicit_solve
ImplicitExplTerm(p, cur, prev, i_, dt, t1, dI, integral) ==
    cur[i_ - 1] - dt * evaluate(p, t1, prev[i_], "none") + dI * integral

ImplicitFunc(p, expl_term, dt, t1, x_next) ==
    expl_term + dt * evaluate(p, t1, x_next, "none") - x_next

\* semi-implicit step: _expl_term and _func
SemiExplTerm(p, cur, prev, i_, dt, t0, t1, dI, integral) ==
    cur[i_ - 1]
    + dt * (evaluate(p, t0, cur[i_ - 1], "expl")
            - evaluate(p, t0, prev[i_ - 1], "expl")
            - evaluate(p, t1, prev[i_], "impl"))
    + dI * integral

SemiFunc(p, expl_term, dt, t1, x_next) ==
    expl_term + dt * evaluate(p, t1, x_next, "impl") - x_next

\* variant of ComputeStep that goes to the root finder whatever the problem offers
ComputeStep_AlwaysSolve(ty, p, cur, prev, i_, dt, t0, t1, dI, integral) ==
    LET guess == [j \in {0} |-> cur[i_]]
        impl_term == ImplicitExplTerm(p, cur, prev, i_, dt, t1, dI, integral)
        semi_term == SemiExplTerm(p, cur, prev, i_, dt, t0, t1, dI, integral)
        impl_func == [x \in SearchRange(guess) |-> ImplicitFunc(p, impl_term, dt, t1, x)]
        semi_func == [x \in SearchRange(guess) |-> SemiFunc(p, semi_term, dt, t1, x)]
    IN  IF is_implicit(ty)
        THEN [path |-> "implicit_solve", value |-> implicit_solve(guess, impl_func)[0],
              expl_term |-> impl_term, guess |-> guess,
              sol |-> implicit_solve(guess, impl_func),
              success |-> find_root(impl_func, guess).success, zeros |-> ZerosOf(impl_func)]
        ELSE IF is_semi_implicit(ty)
        THEN [path |-> "implicit_solve", value |-> implicit_solve(guess, semi_func)[0],
              expl_term |-> semi_term, guess |-> guess,
              sol |-> implicit_solve(guess, semi_func),
              success |-> find_root(semi_func, guess).success, zeros |-> ZerosOf(semi_func)]
        ELSE [path |-> "explicit",
              value |-> ExplicitStep(p, cur, prev, i_, dt, t0, dI, integral),
              expl_term |-> 0, guess |-> None, sol |-> None, success |-> TRUE, zeros |-> {}]

\* "compute step": the value handed to solution_at and how it was obtained
ComputeStep(ty, p, cur, prev, i_, dt, t0, t1, dI, integral) ==
    LET phis == [k \in 0..2 |-> IF k = 0 THEN prev[i_ - 1]
                                ELSE IF k = 1 THEN prev[i_] ELSE cur[i_ - 1]]
        guess == [j \in {0} |-> cur[i_]]
        impl_term == ImplicitExplTerm(p, cur, prev, i_, dt, t1, dI, integral)
        semi_term == SemiExplTerm(p, cur, prev, i_, dt, t0, t1, dI, integral)
        impl_func == [x \in SearchRange(guess) |-> ImplicitFunc(p, impl_term, dt, t1, x)]
        semi_func == [x \in SearchRange(guess) |-> SemiFunc(p, semi_term, dt, t1, x)]
        impl_sol == implicit_solve(guess, impl_func)
        semi_sol == implicit_solve(guess, semi_func)
        impl_ok == find_root(impl_func, guess).success
        semi_ok == find_root(semi_func, guess).success
        impl_zeros == ZerosOf(impl_func)
        semi_zeros == ZerosOf(semi_func)
        direct == direct_implicit(p, phis, dt, dI, integral)
    IN  IF is_implicit(ty)
        THEN IF problem_has_direct_implicit(p)
             THEN [path |-> "direct_implicit", value |-> direct, expl_term |-> 0,
                   guess |-> None, sol |-> Some(direct), success |-> TRUE, zeros |-> {}]
             ELSE [path |-> "implicit_solve", value |-> impl_sol[0], expl_term |-> impl_term,
                   guess |-> guess, sol |-> impl_sol, success |-> impl_ok,
                   zeros |-> impl_zeros]
        ELSE IF is_semi_implicit(ty)
        THEN IF problem_has_direct_implicit(p)
             THEN [path |-> "direct_implicit", value |-> direct, expl_term |-> 0,
                   guess |-> None, sol |-> Some(direct), success |-> TRUE, zeros |-> {}]
             ELSE [path |-> "implicit_solve", value |-> semi_sol[0], expl_term |-> semi_term,
                   guess |-> guess, sol |-> semi_sol, success |-> semi_ok,
                   zeros |-> semi_zeros]
        ELSE [path |-> "explicit",
              value |-> ExplicitStep(p, cur, prev, i_, dt, t0, dI, integral),
              expl_term |-> 0, guess |-> None, sol |-> None, success |-> TRUE, zeros |-> {}]

\* variant of WriteIndex that overwrites the node the step started from
WriteIndex_Previous(t_, n_, num) == GlobalIndex(t_, n_, num) - 1

\* the global index the new value is written to
WriteIndex(t_, n_, num) == GlobalIndex(t_, n_, num)

\* State.solution_at(index, value)
solution_at(arr, index, value) == [arr EXCEPT ![index] = value]

\* "calculate residual": the values the residual integral is taken over
ResidualValues(cur, prev, newest, t_, n_, num) ==
    [IntegrateValues(cur, prev, t_, n_, num) EXCEPT ![n_] = newest[GlobalIndex(t_, n_, num)]]

\* variant of ResidualIntegral that keeps the last sub-interval only
ResidualIntegral_LastOnly(intg, f_values, n_) ==
    IF n_ < 1 THEN 0 ELSE IntegratorEvaluate(intg, f_values, n_)

\* the loop accumulating _residual_integral for i = 1..n_
RECURSIVE ResidualIntegral(_, _, _)
ResidualIntegral(intg, f_values, n_) ==
    IF n_ < 1 THEN 0
    ELSE ResidualIntegral(intg, f_values, n_ - 1) + IntegratorEvaluate(intg, f_values, n_)

\* the residual handed to residual_at
Residual(cur, i0, dI, residual_integral, i_) ==
    Abs(cur[i0] + dI * residual_integral - cur[i_])

\* variant of NextNode whose inner loop starts over at node 2 in later steps
NextNode_SkipFirst(t_, n_, num_steps, num) ==
    IF n_ + 1 < num THEN [t |-> t_, n |-> n_ + 1, more |-> TRUE]
    ELSE IF t_ + 1 < num_steps THEN [t |-> t_ + 1, n |-> IF num > 2 THEN 2 ELSE 1, more |-> TRUE]
    ELSE [t |-> t_ + 1, n |-> n_ + 1, more |-> FALSE]

\* the loops of run() and _time_step(): the (t, n) after node n_ of step t_,
\* n = 0 once the last step is done
NextNode(t_, n_, num_steps, num) ==
    IF n_ + 1 < num THEN [t |-> t_, n |-> n_ + 1, more |-> TRUE]
    ELSE IF t_ + 1 < num_steps THEN [t |-> t_ + 1, n |-> 1, more |-> TRUE]
    ELSE [t |-> t_ + 1, n |-> n_ + 1, more |-> FALSE]

\* ------------------------------------------------------------------------
\* Sdc.run, Sdc._time_step and Sdc._sdc_step as actions
\* ------------------------------------------------------------------------
solver_vars == <<kwargs, problem, type_, num_time_steps, num_nodes_, num_points, State_num_points,
                 integrator, time_points, deltas>>

\* run() up to the head of the while loop
run ==
    /\ pc = "ready"
    /\ solution_' = [values |-> <<>>, used_iterations |-> 0, reductions |-> None]
    /\ exact' = [exact EXCEPT ![0] = problem.initial_value]
    /\ iter' = 0
    /\ pc' = "while"
    /\ UNCHANGED <<beside_sdc, solver_vars, states, heap, threshold, t, n, writes, last, outcome>>

\* one pass of the loop head: a new State whose solution is a copy of the
\* previous one, then on to the first time step
run_iterate ==
    /\ pc = "while"
    /\ has_reached(threshold) = None
    /\ LET copied == ArrayCopy(heap, current_state(states).solution)
       IN  /\ heap' = copied.heap
           /\ states' = Append(states, NewState(iter + 1, State_num_points, copied.ref))
    /\ iter' = iter + 1
    /\ t' = 0
    /\ n' = 1
    /\ writes' = <<>>
    /\ last' = NoStep
    /\ pc' = IF 0 < num_time_steps /\ 1 < num_nodes(integrator) THEN "steps" ELSE "post"
    /\ UNCHANGED <<beside_sdc, solver_vars, exact, threshold, outcome, solution_>>

\* _sdc_step(t, n) and the advance of the two for loops around it
sdc_step ==
    /\ pc = "steps"
    /\ LET num == num_nodes(integrator)
           i_ == WriteIndex(t, n, num)
           i0 == GlobalIndex(t, n, num) - n
           i1 == (t + 1) * (num - 1)
           dt == DeltaNode(deltas, n)
           t0 == time_points.nodes[GlobalIndex(t, n, num) - 1]
           t1 == time_points.nodes[GlobalIndex(t, n, num)]
           cur_ref == current_state(states).solution
           prev_ref == previous_state(states).solution
           cur == heap[cur_ref]
           prev == heap[prev_ref]
           integrate_values == IntegrateValues(cur, prev, t, n, num)
           integral == IntegratorEvaluate(integrator,
                           ProblemValues(problem, integrator, n, integrate_values), n)
           step == ComputeStep(type_, problem, cur, prev, GlobalIndex(t, n, num),
                               dt, t0, t1, deltas.I, integral)
           heap1 == [heap EXCEPT ![cur_ref] = solution_at(@, i_, step.value)]
           cur1 == heap1[cur_ref]
           prev1 == heap1[prev_ref]
           residual_values == ResidualValues(cur1, prev1, heap1[states[Len(states)].solution],
                                             t, n, num)
           residual_integral == ResidualIntegral(integrator,
                                    ProblemValues(problem, integrator, n, residual_values), n)
           residual == Residual(cur1, i0, deltas.I, residual_integral, GlobalIndex(t, n, num))
           exact_i == exact_solution(problem, t0, time_points.nodes[GlobalIndex(t, n, num)])
           next == NextNode(t, n, num_time_steps, num)
       IN  IF i_ < Size(cur)
           THEN /\ heap' = heap1
                /\ states' = [states EXCEPT
                       ![Len(states)].residual[GlobalIndex(t, n, num)] = residual,
                       ![Len(states)].error[GlobalIndex(t, n, num)] =
                           IF problem_has_exact_solution(problem)
                           THEN Abs(cur1[GlobalIndex(t, n, num)] - exact_i) ELSE @]
                /\ exact' = IF problem_has_exact_solution(problem)
                            THEN [exact EXCEPT ![GlobalIndex(t, n, num)] = exact_i] ELSE exact
                /\ writes' = Append(writes, i_)
                /\ last' = [i |-> GlobalIndex(t, n, num), i0 |-> i0, i1 |-> i1, t |-> t, n |-> n,
                            dt |-> dt, t0 |-> t0, t1 |-> t1, path |-> step.path,
                            integrate_values |-> integrate_values,
                            eval_time |-> EvalTime(integrator, n), integral |-> integral,
                            expl_term |-> step.expl_term, guess |-> step.guess, sol |-> step.sol,
                            success |-> step.success, zeros |-> step.zeros,
                            value |-> step.value, dI |-> deltas.I,
                            residual_values |-> residual_values,
                            residual_integral |-> residual_integral,
                            prev_ref |-> prev_ref, cur_ref |-> cur_ref]
                /\ t' = next.t
                /\ n' = next.n
                /\ pc' = IF next.more THEN "steps" ELSE "post"
                /\ outcome' = outcome
           ELSE \* solution_at: "Index out of range"
                /\ pc' = "raised"
                /\ outcome' = "ValueError"
                /\ UNCHANGED <<heap, states, exact, writes, last, t, n>>
    /\ UNCHANGED <<beside_sdc, solver_vars, threshold, iter, solution_>>

\* not-a-number: the quotient 0/0 of the reduction
NaN == -1

\* "compute reduction": the relative change recorded from the second iteration on
ReductionOfSolution(cur, prev) ==
    LET end == Size(cur) - 1
    IN  IF prev[end] = 0 THEN NaN
        ELSE Abs(((cur[end] - cur[end]) * 100) \div prev[end])

ReductionOfError(err) == Abs(err[Size(err) - 1] - err[Size(err) - 1])

\* run() after the sweep of an iteration: reduction, logging, add_solution
\* and threshold.check
run_post ==
    /\ pc = "post"
    /\ LET cur == heap[current_state(states).solution]
           prev == heap[previous_state(states).solution]
           with_exact == problem_has_exact_solution(problem)
           reduced == IF iter > 1
                      THEN [states EXCEPT
                              ![Len(states)].reduction_of_solution =
                                  Some(ReductionOfSolution(cur, prev)),
                              ![Len(states)].reduction_of_error =
                                  IF with_exact
                                  THEN Some(ReductionOfError(current_state(states).error))
                                  ELSE @]
                      ELSE states
       IN  /\ states' = reduced
           /\ IF iter # 1 /\ ~with_exact
              THEN \* _output formats the whole residual array as "exp"
                   /\ pc' = "raised"
                   /\ outcome' = "TypeError"
                   /\ UNCHANGED <<threshold, solution_>>
              ELSE /\ solution_' = [solution_ EXCEPT
                          !.values = Append(@, current_state(states).solution)]
                   /\ threshold' = threshold_check(threshold,
                          current_state(reduced).residual[Size(current_state(reduced).residual) - 1],
                          iter)
                   /\ pc' = "while"
                   /\ outcome' = outcome
    /\ UNCHANGED <<beside_sdc, solver_vars, heap, exact, iter, t, n, writes, last>>

\* run() after the while loop: the report and the returned solution
run_report ==
    /\ pc = "while"
    /\ has_reached(threshold) # None
    /\ solution_' = [solution_ EXCEPT
           !.used_iterations = iter,
           !.reductions = states[Len(states)].reduction_of_solution]
    /\ outcome' = IF iter <= threshold.max_threshold THEN "Converged" ELSE "FAILED"
    /\ pc' = "done"
    /\ UNCHANGED <<beside_sdc, solver_vars, states, heap, exact, threshold, iter, t, n, writes, last>>

Next ==
    \/ \E kw_num_time_steps \in 1..MaxSteps, kw_num_nodes \in 2..MaxNodes,
          kw_nodes_type \in NodesTypes, kw_type \in TypeOptions,
          kw_max_threshold \in 1..MaxIterations :
          \E p \in Problems(kw_num_time_steps, kw_num_nodes, kw_nodes_type) :
             init(p, kw_type, kw_num_time_steps, kw_num_nodes, kw_nodes_type, "stencil",
                  kw_max_threshold)
    \/ run
    \/ run_iterate
    \/ sdc_step
    \/ run_post
    \/ run_report

Spec == Init /\ [][Next]_vars

\* ------------------------------------------------------------------------
\* Properties
\* ------------------------------------------------------------------------
\* the solution arrays of the running and of the preceding iteration
Cur == heap[states[Len(states)].solution]
Prev == heap[states[Len(states) - 1].solution]

\* an _sdc_step call of the running iteration has returned
StepDone == last.i > 0

\* spacing of the time points of global indices i_ - 1 and i_
Dtau(i_) == time_points.nodes[i_] - time_points.nodes[i_ - 1]

\* the quadrature input of the update of node last.n, spelled out per node:
\* the running iteration below the node, the preceding one from the node on
MaskedInput ==
    [j \in 0..(num_nodes_ - 1) |->
        IF j < last.n THEN Cur[last.t * (num_nodes_ - 1) + j]
        ELSE Prev[last.t * (num_nodes_ - 1) + j]]

\* the integral from node m - 1 to node m of F over the node values v
QuadratureOf(v, m) ==
    SumTo([j \in 0..(num_nodes_ - 1) |->
              integrator.weights[m][j] * evaluate(problem, last.eval_time, v[j], "none")],
          0, num_nodes_ - 1)

\* C1: the values fed to the quadrature for node n of step t are, per local
\* node j, the current iteration's value at t*(N-1)+j for j < n and the
\* previous iteration's value at that index for j >= n.
C1_MaskedQuadratureInput ==
    StepDone => last.integrate_values = MaskedInput

\* a step of a later time step whose node has corrected predecessors that
\* differ from the previous iteration
C1_Witness ==
    /\ StepDone
    /\ last.t >= 1
    /\ last.n >= 2
    /\ \E j \in 0..(last.n - 1) : Cur[last.i0 + j] # Prev[last.i0 + j]

\* C2: with type "expl" the value written at i = t*(N-1)+n is
\* cur[i-1] + dtau*(F(t_{i-1}, cur[i-1]) - F(t_{i-1}, prev[i-1])) + dI*integral.
C2_ExplicitUpdate ==
    (StepDone /\ type_ = "expl") =>
        Cur[last.i] = Cur[last.i - 1]
                      + Dtau(last.i)
                        * (evaluate(problem, time_points.nodes[last.i - 1], Cur[last.i - 1], "none")
                           - evaluate(problem, time_points.nodes[last.i - 1], Prev[last.i - 1], "none"))
                      + deltas.I * QuadratureOf(MaskedInput, last.n)

\* an explicit step in which the Euler correction term does not vanish
C2_Witness ==
    /\ StepDone
    /\ type_ = "expl"
    /\ last.t >= 1
    /\ evaluate(problem, time_points.nodes[last.i - 1], Cur[last.i - 1], "none")
         # evaluate(problem, time_points.nodes[last.i - 1], Prev[last.i - 1], "none")
    /\ Cur[last.i] # Prev[last.i]

SweepLength == num_time_steps * (num_nodes_ - 1)

\* C4: within one iteration the indices 1..T*(N-1) are written exactly once
\* each and in strictly ascending order: none twice, none skipped, none
\* after a higher one.
C4_AscendingWrites ==
    /\ \A k \in 1..Len(writes) : writes[k] = k
    /\ Len(writes) <= SweepLength
    /\ (pc = "post" \/ (pc \in {"while", "done", "raised"} /\ iter >= 1))
          => Len(writes) = SweepLength

\* a finished sweep over two time steps of three nodes
C4_Witness ==
    /\ pc = "post"
    /\ num_time_steps >= 2
    /\ num_nodes_ >= 3
    /\ Len(writes) = SweepLength
    /\ iter >= 2

\* C5: while iteration k is computed no value held by the state of an
\* earlier iteration changes; the writes of _sdc_step go to the state
\* appended for iteration k.
C5_EarlierIterationsFrozen ==
    [][pc = "steps" =>
          /\ \A k \in 1..(Len(states) - 1) :
                /\ states'[k] = states[k]
                /\ heap'[states[k].solution] = heap[states[k].solution]
          /\ pc' # "raised" =>
                /\ heap'[states[Len(states)].solution][last'.i] = last'.value
                /\ states'[Len(states)].solution = states[Len(states)].solution
                /\ states[Len(states)].solution # states[Len(states) - 1].solution
    ]_vars

\* in the second iteration a step has moved the current view away from the
\* previous one
C5_Witness ==
    /\ pc = "steps"
    /\ iter >= 2
    /\ StepDone
    /\ Cur[last.i] # Prev[last.i]

\* C6: after init the initial state's solution array and the node time-point
\* array have T*(N-1)+1 entries, and (t, n) -> t*(N-1)+n with t in [0,T),
\* n in [1,N) hits every index 1..T*(N-1) exactly once.
C6_PointCount ==
    pc # "constructed" =>
        LET pairs == (0..(num_time_steps - 1)) \X (1..(num_nodes_ - 1))
        IN  /\ Size(heap[initial_state(states).solution]) = num_time_steps * (num_nodes_ - 1) + 1
            /\ Size(time_points.nodes) = num_time_steps * (num_nodes_ - 1) + 1
            /\ {GlobalIndex(q[1], q[2], num_nodes(integrator)) : q \in pairs}
                  = 1..(num_time_steps * (num_nodes_ - 1))
            /\ \A q \in pairs : \A r \in pairs :
                  GlobalIndex(q[1], q[2], num_nodes(integrator))
                     = GlobalIndex(r[1], r[2], num_nodes(integrator)) => q = r

\* an initialised solver with several time steps of several nodes
C6_Witness ==
    /\ pc = "ready"
    /\ num_time_steps >= 2
    /\ num_nodes_ >= 3
    /\ num_points = 5

\* the nodes the provider yields on time step t_
StepNodes(t_) ==
    NodesOn(integrator.nodes_type.type, num_nodes_,
            [k \in 0..1 |-> time_points.steps[t_ + k]])

\* C7: after init the node time-points are strictly increasing in the global
\* index, the first is time_start, the last is time_end, and the time-point
\* at index (t+1)*(N-1) is both the last node of step t and the first node
\* of step t+1.
C7_TimePoints ==
    pc # "constructed" =>
        /\ \A i_ \in 1..(num_points - 1) : time_points.nodes[i_ - 1] < time_points.nodes[i_]
        /\ time_points.nodes[0] = problem.time_start
        /\ time_points.nodes[num_points - 1] = problem.time_end
        /\ \A t_ \in 0..(num_time_steps - 1) :
              time_points.nodes[(t_ + 1) * (num_nodes_ - 1)] = StepNodes(t_)[num_nodes_ - 1]
        /\ \A t_ \in 0..(num_time_steps - 2) :
              time_points.nodes[(t_ + 1) * (num_nodes_ - 1)] = StepNodes(t_ + 1)[0]

\* a grid of several steps with unevenly spaced nodes, not starting at zero
C7_Witness ==
    /\ pc = "ready"
    /\ num_time_steps >= 2
    /\ num_nodes_ >= 3
    /\ integrator.nodes_type.type = "graded"
    /\ problem.time_start # 0

\* C8: in the state of every iteration the solution at global index 0 is the
\* problem's initial value; in iteration 0 every index holds it.
C8_InitialValue ==
    pc # "constructed" =>
        /\ \A k \in 1..Len(states) : heap[states[k].solution][0] = problem.initial_value
        /\ \A i_ \in DOMAIN heap[initial_state(states).solution] :
              heap[initial_state(states).solution][i_] = problem.initial_value

\* two iterations have been swept and moved the later nodes off the initial value
C8_Witness ==
    /\ pc = "post"
    /\ Len(states) >= 3
    /\ Cur[0] = problem.initial_value
    /\ Cur[1] # problem.initial_value

\* C9: the factor dI of the update and residual formulas is the width of one
\* time step, (time_end - time_start)/T, and the factor dtau used at (t, n)
\* is the distance of the time points of indices t*(N-1)+n-1 and t*(N-1)+n.
C9_StepWidthFactors ==
    StepDone =>
        /\ last.dI * num_time_steps = problem.time_end - problem.time_start
        /\ last.dt = Dtau(last.t * (num_nodes_ - 1) + last.n)

\* the node values of the residual of node last.n: the running iteration up to
\* and including the node, the preceding one above it
ResidualInput ==
    [j \in 0..(num_nodes_ - 1) |->
        IF j <= last.n THEN Cur[last.t * (num_nodes_ - 1) + j]
        ELSE Prev[last.t * (num_nodes_ - 1) + j]]

\* C10: the residual stored at i = t*(N-1)+n is
\* |u_0 + dI * sum_{m=1..n} I_{m-1}^{m}(F(v)) - u_i| with u_0 the current value
\* at node 0 of step t and v the current values for nodes 0..n and the
\* previous ones above n.
C10_Residual ==
    StepDone =>
        states[Len(states)].residual[last.t * (num_nodes_ - 1) + last.n] =
            Abs(Cur[last.t * (num_nodes_ - 1)]
                + deltas.I * SumTo([m \in 1..last.n |-> QuadratureOf(ResidualInput, m)], 1, last.n)
                - Cur[last.t * (num_nodes_ - 1) + last.n])

\* a residual of a later node whose cumulative integral has several parts and
\* whose fresh value matters
C10_Witness ==
    /\ StepDone
    /\ last.n >= 2
    /\ last.t >= 1
    /\ Cur[last.i] # Prev[last.i]
    /\ states[Len(states)].residual[last.i] > 0

\* the residual at the final global point of the running iteration
FinalResidual == states[Len(states)].residual[State_num_points - 1]

\* run() has left its while loop, by falling out of it or by an exception
Stopped == pc = "done" \/ pc = "raised"

\* C11: run() stops only after an iteration at which the residual at the final
\* global point is at most min_threshold or the iteration count has reached
\* max_threshold: it never stops before one of the two conditions is met.
C11_StopsOnlyWhenReached ==
    Stopped => (FinalResidual <= threshold.min_threshold \/ iter >= threshold.max_threshold)

\* C12: when run() has stopped because the iteration cap was reached while the
\* final residual is still above the tolerance, it has taken the "did not
\* converge" branch and not reported "Converged".
C12_CapReportedAsFailure ==
    (pc = "done" /\ iter >= threshold.max_threshold
                 /\ FinalResidual > threshold.min_threshold)
        => outcome # "Converged"

\* the index of the last global point
LastPoint == State_num_points - 1

\* the reduction has been computed for the running iteration
ReductionDone == pc \in {"while", "done"}

\* C13: from the second iteration on, reduction_of_solution is the relative
\* change of the last-point value against the previous iteration, in percent:
\* |cur[last] - prev[last]| / |prev[last]| * 100.
C13_ReductionOfSolution ==
    (ReductionDone /\ iter >= 2 /\ Prev[LastPoint] # 0) =>
        states[Len(states)].reduction_of_solution =
            Some((Abs(Cur[LastPoint] - Prev[LastPoint]) * 100) \div Abs(Prev[LastPoint]))

\* C14: the states of iteration 0 and of iteration 1 carry no numeric
\* reduction_of_solution and no numeric reduction_of_error; a value appears
\* only in the states of iterations from the second on.
C14_NoReductionBeforeSecond ==
    \A k \in 1..Len(states) :
        states[k].iteration <= 1 =>
            /\ states[k].reduction_of_solution = None
            /\ states[k].reduction_of_error = None

\* the previous and current values handed to direct_implicit for the step last
DirectPhis ==
    [k \in 0..2 |-> IF k = 0 THEN Prev[last.i - 1]
                    ELSE IF k = 1 THEN Prev[last.i] ELSE Cur[last.i - 1]]

\* C15: with type "impl" or "semi", a step on a problem that offers a
\* direct-implicit solve takes its node value from direct_implicit and does
\* not call implicit_solve; on a problem that offers none the node value is
\* the one returned by implicit_solve.
C15_DirectImplicitPreferred ==
    (StepDone /\ type_ \in {"impl", "semi"}) =>
        IF problem_has_direct_implicit(problem)
        THEN /\ last.path = "direct_implicit"
             /\ Cur[last.i] = direct_implicit(problem, DirectPhis, Dtau(last.i),
                                              deltas.I, last.integral)
        ELSE /\ last.path = "implicit_solve"
             /\ Cur[last.i] = last.sol[0]

\* a semi-implicit step of a later time step on a problem with a
\* direct-implicit solve that changes the node value
C15_Witness ==
    /\ StepDone
    /\ type_ = "semi"
    /\ problem_has_direct_implicit(problem)
    /\ last.path = "direct_implicit"
    /\ last.t >= 1
    /\ Cur[last.i] # Prev[last.i]

\* the function handed to implicit_solve by the step last, tabulated over the
\* arguments the root finder tries
LastFunc ==
    [x \in SearchRange(last.guess) |->
        IF is_implicit(type_)
        THEN ImplicitFunc(problem, last.expl_term, last.dt, last.t1, x)
        ELSE SemiFunc(problem, last.expl_term, last.dt, last.t1, x)]

\* the step last went through implicit_solve and the root finder failed
RootFinderFailed == StepDone /\ last.path = "implicit_solve" /\ ~last.success

\* C16: when the root finder reports failure inside implicit_solve, no
\* exception is raised, the step stores the root finder's last estimate as the
\* node value, and the sweep goes on with the next node.
C16_FailedRootKeepsEstimate ==
    RootFinderFailed =>
        /\ ~find_root(LastFunc, last.guess).success
        /\ outcome # "ValueError"
        /\ pc \in {"steps", "post"} =>
              LET next == NextNode(last.t, last.n, num_time_steps, num_nodes_)
              IN  /\ Cur[last.i] = find_root(LastFunc, last.guess).x[0]
                  /\ (pc = "steps") = next.more
                  /\ next.more => (t = next.t /\ n = next.n)

\* a failed root search at a node that is not the last one of the sweep, with
\* a starting guess other than zero
C16_Witness ==
    /\ RootFinderFailed
    /\ pc = "steps"
    /\ last.guess[0] # 0
    /\ Cur[last.i] = last.guess[0]

\* ------------------------------------------------------------------------
\* init() called with options outside their documented ranges
\* ------------------------------------------------------------------------
\* the strings handed over as "type": the three solver types and another one
TypeStrings == TypeOptions \cup {"rk4"}

\* counts handed over as num_time_steps: negative, zero and positive
StepCounts == (0 - 1)..MaxSteps

\* counts handed over as num_nodes: negative, zero, and two and more
NodeCounts == {0 - 1, 0} \cup 2..MaxNodes

\* a count usable for laying out the interval of the problem
AtLeast(k, least) == IF k >= least THEN k ELSE least

\* the iteration caps handed over along with these options
MaxOptionIterations == 1

NextOptions ==
    \/ \E kw_num_time_steps \in StepCounts, kw_num_nodes \in NodeCounts,
          kw_nodes_type \in NodesTypes, kw_type \in TypeStrings,
          kw_max_threshold \in 1..MaxOptionIterations :
          \E p \in Problems(AtLeast(kw_num_time_steps, 1), AtLeast(kw_num_nodes, 2),
                            kw_nodes_type) :
             init(p, kw_type, kw_num_time_steps, kw_num_nodes, kw_nodes_type, "stencil",
                  kw_max_threshold)
    \/ run
    \/ run_iterate
    \/ sdc_step
    \/ run_post
    \/ run_report

SpecOptions == Init /\ [][NextOptions]_vars

\* C17: init called with a "type" option that is none of "expl", "impl" and
\* "semi" fails with an error; it does not complete the initialization.
C17_InvalidTypeRejected ==
    (pc # "constructed" /\ kwargs.type \notin {"expl", "impl", "semi"})
        => pc = "init_raised"

\* C18: init called with num_time_steps <= 0 or num_nodes <= 0 fails with an
\* error before any state has been appended to the states list.
C18_InvalidCountsRejected ==
    (pc # "constructed" /\ (kwargs.num_time_steps <= 0 \/ kwargs.num_nodes <= 0))
        => (pc = "init_raised" /\ states = <<>>)

\* ------------------------------------------------------------------------
\* TrajectorySolutionData
\* ------------------------------------------------------------------------
MaxData == 3
MaxTime == 2

\* time points and numeric types of the step data
TimePoints == 0..MaxTime
NumericTypes == {"float", "complex"}

\* what "{:s}".format(dim) ends with: the type of a step's dim decides it, a
\* string is formatted, an integer raises ValueError, a tuple TypeError
DimFormats == {"none", "ValueError", "TypeError"}

\* spacial dimensions of the step data: their size and how they format
Dims ==
    {[size |-> 1, format_s |-> f] : f \in DimFormats}
    \cup {[size |-> 2, format_s |-> "none"]}

\* the solution values handed over, as far as the storage looks at them
Values == [numeric_type : NumericTypes, dim : Dims]

\* StepSolutionData(values, time_point)
NewStep(values, time_point) ==
    [time_point |-> time_point, numeric_type |-> values.numeric_type, dim |-> values.dim]

\* StepSolutionData objects, with and without a time point
StepSolutionData ==
    {NewStep(v, tp) : v \in Values, tp \in {Some(x) : x \in TimePoints} \cup {None}}

\* "{:s} != {:s}".format(step_dim, dim): the first argument that does not
\* format decides the exception
FormatDims(step_dim, dim) ==
    IF step_dim.format_s # "none" THEN step_dim.format_s
    ELSE IF dim = None THEN "TypeError"
    ELSE dim[1].format_s

\* one pass of the loop of _check_consistency: the three assertions in their
\* order, the message of each built before the assertion is made
CheckStep(data, step, numeric_type, dim) ==
    IF ~(data[step].time_point[1] > data[1].time_point[1]) THEN "ValueError"
    ELSE IF Some(data[step].numeric_type) # numeric_type THEN "ValueError"
    ELSE IF FormatDims(data[step].dim, dim) # "none" THEN FormatDims(data[step].dim, dim)
    ELSE IF Some(data[step].dim) # dim THEN "ValueError"
    ELSE "none"

\* _check_consistency: every step after the first is compared with the time
\* point of the first step and with the storage's numeric type and dimension,
\* the first step that raises ends it; data[1] is the step the source has at
\* index 0
check_consistency(data, numeric_type, dim) ==
    LET raising == {step \in 2..Len(data) : CheckStep(data, step, numeric_type, dim) # "none"}
    IN  IF raising = {}
        THEN "none"
        ELSE CheckStep(data, CHOOSE step \in raising : \A other \in raising : step <= other,
                       numeric_type, dim)

\* variant of the lock state that reports an open storage whatever happened
finalized_AlwaysOpen(tr) == FALSE

\* property finalized: the lock state
finalized(tr) == tr.finalized

\* variant of the handler of a failed check that keeps the appended step
Rollback_KeepAppended(old_data, data) == data

\* except ValueError: self._data = _old_data.copy()
Rollback(old_data, data) == old_data

\* add_solution_data(*args, **kwargs): positional is the call with a single
\* StepSolutionData, otherwise step is the one constructed from the arguments
\* and constructed tells whether that construction succeeded; only a
\* ValueError of the check is caught and rolled back
AddSolutionData(tr, positional, step, constructed) ==
    IF finalized(tr)
    THEN [trajectory |-> tr, raised |-> "AttributeError", checked |-> "skipped"]
    ELSE IF positional /\ step.time_point = None
    THEN [trajectory |-> tr, raised |-> "ValueError", checked |-> "skipped"]
    ELSE IF ~positional /\ ~constructed
    THEN [trajectory |-> tr, raised |-> "ValueError", checked |-> "skipped"]
    ELSE LET data == Append(tr.data, step)
             check == check_consistency(data, tr.numeric_type, tr.dim)
         IN  IF check = "ValueError"
             THEN [trajectory |-> [tr EXCEPT !.data = Rollback(tr.data, data)],
                   raised |-> "ValueError", checked |-> check]
             ELSE IF check # "none"
             THEN [trajectory |-> [tr EXCEPT !.data = data], raised |-> check,
                   checked |-> check]
             ELSE [trajectory |->
                      IF Len(data) = 1
                      THEN [tr EXCEPT !.data = data, !.dim = Some(step.dim),
                                      !.numeric_type = Some(step.numeric_type)]
                      ELSE [tr EXCEPT !.data = data],
                   raised |-> "none", checked |-> check]

\* the storage has room for another step, or is locked anyway
Room == Len(trajectory.data) < MaxData \/ finalized(trajectory)

\* the steps are objects of one class: the dim of a step handed over is of
\* the type the dim of the stored steps has
OneClass(step) ==
    IF trajectory.dim = None THEN TRUE ELSE step.dim.format_s = trajectory.dim[1].format_s

\* the calls of add_solution_data: with a single StepSolutionData, or with
\* values and a time point from which the step is constructed
AddCalls ==
    {[positional |-> TRUE, step |-> s, constructed |-> TRUE] : s \in StepSolutionData}
    \cup {[positional |-> FALSE, step |-> NewStep(v, Some(tp)), constructed |-> c] :
             v \in Values, tp \in TimePoints, c \in BOOLEAN}

add_solution_data(call) ==
    /\ Room
    /\ OneClass(call.step)
    /\ LET result == AddSolutionData(trajectory, call.positional, call.step, call.constructed)
       IN  /\ trajectory' = result.trajectory
           /\ raised' = result.raised
           /\ checked' = result.checked
    /\ called' = "add_solution_data"
    /\ UNCHANGED beside_storage

\* append(p_object): add_solution_data with one unnamed parameter
append(p_object) ==
    /\ Room
    /\ OneClass(p_object)
    /\ LET result == AddSolutionData(trajectory, TRUE, p_object, TRUE)
       IN  /\ trajectory' = result.trajectory
           /\ raised' = result.raised
           /\ checked' = result.checked
    /\ called' = "append"
    /\ UNCHANGED beside_storage

\* __setitem__(key, value): add_solution_data(value=value, time_point=key)
setitem(key, value, constructed) ==
    /\ Room
    /\ OneClass(NewStep(value, Some(key)))
    /\ LET result == AddSolutionData(trajectory, FALSE, NewStep(value, Some(key)), constructed)
       IN  /\ trajectory' = result.trajectory
           /\ raised' = result.raised
           /\ checked' = result.checked
    /\ called' = "__setitem__"
    /\ UNCHANGED beside_storage

\* finalize(): the lock and the exception of a second call
Finalize(tr) ==
    IF finalized(tr)
    THEN [trajectory |-> tr, raised |-> "AttributeError"]
    ELSE [trajectory |-> [tr EXCEPT !.finalized = TRUE], raised |-> "none"]

finalize ==
    /\ trajectory' = Finalize(trajectory).trajectory
    /\ raised' = Finalize(trajectory).raised
    /\ checked' = "skipped"
    /\ called' = "finalize"
    /\ UNCHANGED beside_storage

NextStorage ==
    \/ \E call \in AddCalls : add_solution_data(call)
    \/ \E p_object \in StepSolutionData : append(p_object)
    \/ \E key \in TimePoints, value \in Values, constructed \in BOOLEAN :
          setitem(key, value, constructed)
    \/ finalize

SpecStorage == Init /\ [][NextStorage]_vars

\* the methods that add to the storage
Mutators == {"add_solution_data", "append", "__setitem__"}

\* C19: on a finalized storage every call of add_solution_data, append or
\* item assignment ends with an error and leaves the stored data, its length
\* and the finalized flag as they were; the flag never returns to False.
C19_LockedStorageRejectsWrites ==
    [][trajectory.finalized =>
          /\ trajectory' = trajectory
          /\ Len(trajectory'.data) = Len(trajectory.data)
          /\ trajectory'.finalized
          /\ called' \in Mutators => raised' # "none"]_vars

\* an item assignment on a finalized storage holding two steps has failed
C19_Witness ==
    /\ trajectory.finalized
    /\ Len(trajectory.data) >= 2
    /\ called = "__setitem__"
    /\ raised = "AttributeError"

\* C20: finalize() called on a storage that is already locked raises
\* ValueError.
C20_RelockRaisesValueError ==
    (called = "finalize" /\ raised # "none") => raised = "ValueError"

\* ------------------------------------------------------------------------
\* Sdc.State: solution_at, error_at and residual_at
\* ------------------------------------------------------------------------
MaxCells == 2

\* the values written through the accessors
WriteValues == {1}

\* the indices the accessors are called with: inside the arrays, and up to
\* two beyond either end
Indices == (0 - MaxCells - 2)..(MaxCells + 1)

\* the value argument of an accessor: None for a read, else the value to write
AccessValues == {None} \cup {Some(v) : v \in WriteValues}

\* numpy's item access arr[index]: a negative index counts from the end
ItemIndex(arr, index) == IF index < 0 THEN Size(arr) + index ELSE index

\* State.solution_at / error_at / residual_at(index, value) on the array arr:
\* the assertion on the upper end, then the read or the write of the item
StateAccess(arr, index, value) ==
    IF ~(index < Size(arr))
    THEN [arr |-> arr, raised |-> "ValueError", returned |-> None]
    ELSE IF ItemIndex(arr, index) < 0
    THEN [arr |-> arr, raised |-> "IndexError", returned |-> None]
    ELSE IF value = None
    THEN [arr |-> arr, raised |-> "none", returned |-> Some(arr[ItemIndex(arr, index)])]
    ELSE [arr |-> [arr EXCEPT ![ItemIndex(arr, index)] = value[1]],
          raised |-> "none", returned |-> None]

\* Sdc.State.num_points = points; Sdc.State()
new_state(points) ==
    /\ cell = None
    /\ cell' = Some([solution |-> Zeros(points), error |-> Zeros(points),
                     residual |-> Zeros(points)])
    /\ access' = [access EXCEPT !.method = "__init__"]
    /\ UNCHANGED beside_accessors

call_solution_at(index, value) ==
    /\ cell # None
    /\ LET result == StateAccess(cell[1].solution, index, value)
       IN  /\ cell' = Some([cell[1] EXCEPT !.solution = result.arr])
           /\ access' = [method |-> "solution_at", index |-> index, value |-> value,
                         raised |-> result.raised, returned |-> result.returned]
    /\ UNCHANGED beside_accessors

call_error_at(index, value) ==
    /\ cell # None
    /\ LET result == StateAccess(cell[1].error, index, value)
       IN  /\ cell' = Some([cell[1] EXCEPT !.error = result.arr])
           /\ access' = [method |-> "error_at", index |-> index, value |-> value,
                         raised |-> result.raised, returned |-> result.returned]
    /\ UNCHANGED beside_accessors

call_residual_at(index, value) ==
    /\ cell # None
    /\ LET result == StateAccess(cell[1].residual, index, value)
       IN  /\ cell' = Some([cell[1] EXCEPT !.residual = result.arr])
           /\ access' = [method |-> "residual_at", index |-> index, value |-> value,
                         raised |-> result.raised, returned |-> result.returned]
    /\ UNCHANGED beside_accessors

NextAccessors ==
    \/ \E points \in 1..MaxCells : new_state(points)
    \/ \E index \in Indices, value \in AccessValues : call_solution_at(index, value)
    \/ \E index \in Indices, value \in AccessValues : call_error_at(index, value)
    \/ \E index \in Indices, value \in AccessValues : call_residual_at(index, value)

SpecAccessors == Init /\ [][NextAccessors]_vars

\* the array the accessor called last works on
AccessedArray ==
    IF access.method = "solution_at" THEN cell[1].solution
    ELSE IF access.method = "error_at" THEN cell[1].error
    ELSE cell[1].residual

\* an accessor has been called
Accessed == access.method \in {"solution_at", "error_at", "residual_at"}

\* C21: an accessor called with an index outside [0, num_points) ends with an
\* error.
C21_OutOfRangeRejected ==
    (Accessed /\ access.index \notin 0..(Size(AccessedArray) - 1))
        => access.raised # "none"

\* ------------------------------------------------------------------------
\* The worked example: F(t, u) = c on [0, 1] from u0 = 1, three nodes, one step
\* ------------------------------------------------------------------------
MaxSlope == 4

\* the grid of the example: time is counted in halves and values in quarters,
\* so that the nodes 0, 1/2, 1 are 0, 1, 2, the initial value 1 is 4 and the
\* slope c is 2*c per grid unit
ExampleProblems ==
    { [time_start |-> 0, time_end |-> 2, initial_value |-> 4,
       rhs |-> [a |-> 0, b |-> 0, c |-> 2 * c],
       has_exact |-> ex, has_direct_implicit |-> FALSE] :
         c \in (0 - MaxSlope)..MaxSlope, ex \in BOOLEAN }

NextExample ==
    \/ \E p \in ExampleProblems :
          init(p, "expl", 1, 3, "uniform", "polynomial", threshold.max_threshold)
    \/ run
    \/ run_iterate
    \/ sdc_step
    \/ run_post
    \/ run_report

SpecExample == Init /\ [][NextExample]_vars

\* C22: the explicit solver with the default thresholds on F(t, u) = c with
\* three nodes and one step over [0, 1] from u0 = 1 ends as converged after at
\* most 5 iterations, and the values of the last iteration are 1 + c*t at
\* every node.
C22_ConstantExample ==
    pc = "done" =>
        /\ outcome = "Converged"
        /\ iter <= 5
        /\ "residual" \in has_reached(threshold)[1]
        /\ \A j \in 0..(num_points - 1) :
              Cur[j] = problem.initial_value
                       + problem.rhs.c * (time_points.nodes[j] - problem.time_start)

\* the example with c = -1 has ended: the values 1, 1/2 and 0
C22_Witness ==
    /\ pc = "done"
    /\ problem.rhs.c = 0 - 2
    /\ Cur = [j \in 0..2 |-> 4 - 2 * j]
    /\ threshold.max_threshold = 10

\* ------------------------------------------------------------------------
\* IntegratorBase.init
\* ------------------------------------------------------------------------
\* the objects handed to IntegratorBase.init, by name: node providers and
\* weight functions (instances), dictionaries, a class, and plain values
NodeProviders == {"nodes_a", "nodes_b"}
WeightFunctions == {"weights_a", "weights_b"}
Dictionaries == {"dict_weights_a", "dict_text", "dict_empty"}
Integers_ == {"3"}
Others == {"GaussLobattoNodes", "float", "text", "3.5"}

\* isinstance(obj, INodes), isinstance(obj, IWeightFunction),
\* isinstance(obj, dict), isinstance(obj, int)
IsINodes(obj) == obj \in NodeProviders
IsIWeightFunction(obj) == obj \in WeightFunctions
IsDict(obj) == obj \in Dictionaries
IsInt(obj) == obj \in Integers_

\* the object has an attribute __name__: classes have, instances have not
HasName(obj) == obj \in {"GaussLobattoNodes", "float"}

\* the field "class" of a dictionary, None when it has none
DictClass(obj) ==
    IF obj = "dict_weights_a" THEN Some("weights_a")
    ELSE IF obj = "dict_text" THEN Some("text")
    ELSE None

\* the exception of a raise whose message reads obj.__name__
RaiseNaming(obj) == IF HasName(obj) THEN "ValueError" ELSE "AttributeError"

\* IntegratorBase.init(nodes_type, num_nodes, weights_function, interval):
\* the attributes after the call, the objects init() was called on, and the
\* exception the call ended with
IntegratorBaseInit(b, nodes_type, num, weights_function, interval) ==
    IF ~IsINodes(nodes_type)
    THEN [base |-> b, inited |-> {}, raised |-> RaiseNaming(nodes_type)]
    ELSE IF IsDict(weights_function)
            /\ (DictClass(weights_function) = None
                \/ ~IsIWeightFunction(DictClass(weights_function)[1]))
    THEN [base |-> b, inited |-> {}, raised |-> "ValueError"]
    ELSE IF ~IsDict(weights_function) /\ ~IsIWeightFunction(weights_function)
    THEN [base |-> b, inited |-> {}, raised |-> "ValueError"]
    ELSE LET weights == IF IsDict(weights_function) THEN DictClass(weights_function)[1]
                        ELSE weights_function
             with_weights == [b EXCEPT !.weights_function = Some(weights)]
         IN  IF ~IsInt(num)
             THEN [base |-> with_weights, inited |-> {weights},
                   raised |-> RaiseNaming(num)]
             ELSE [base |-> [with_weights EXCEPT !.nodes = Some(nodes_type)],
                   inited |-> {weights, nodes_type}, raised |-> "none"]

base_init(nodes_type, num, weights_function, interval) ==
    /\ LET result == IntegratorBaseInit(base, nodes_type, num, weights_function, interval)
       IN  /\ base' = result.base
           /\ base_call' = [before |-> base, inited |-> result.inited,
                            raised |-> result.raised, made |-> TRUE,
                            args |-> [nodes_type |-> nodes_type, num |-> num,
                                      weights_function |-> weights_function,
                                      interval |-> interval]]
    /\ UNCHANGED beside_base

NextBase ==
    \E nodes_type \in NodeProviders \cup Others,
       num \in Integers_ \cup Others,
       weights_function \in WeightFunctions \cup Dictionaries \cup Others,
       interval \in {None, Some(1)} :
          base_init(nodes_type, num, weights_function, interval)

SpecBase == Init /\ [][NextBase]_vars

\* C23: whenever IntegratorBase.init raises ValueError, the integrator's
\* stored nodes and weight function are what they were before the call, and
\* init() has been called on none of the objects handed over.
C23_ChecksBeforeSetting ==
    (base_call.made /\ base_call.raised = "ValueError") =>
        (base = base_call.before /\ base_call.inited = {})

\* C24: the time points of the stored steps are strictly increasing in
\* storage order, whatever sequence of add_solution_data calls was made.
C24_TimePointsIncrease ==
    \A k \in 1..(Len(trajectory.data) - 1) :
        trajectory.data[k].time_point[1] < trajectory.data[k + 1].time_point[1]

C26_UnsweptNodesHoldPrevious ==
    /\ pc = "steps" =>
          \A j \in GlobalIndex(t, n, num_nodes(integrator))..(Size(Cur) - 1) : Cur[j] = Prev[j]
    /\ (pc \in {"steps", "post"} /\ StepDone /\ last.path = "implicit_solve") =>
          last.guess[0] = Prev[last.i]

\* in a second iteration the root finder has moved the first node of the
\* second time step away from the previous iteration's value, and the sweep
\* is about to start on the next node
C26_Witness ==
    /\ pc = "steps"
    /\ iter >= 2
    /\ StepDone
    /\ last.t >= 1
    /\ last.path = "implicit_solve"
    /\ Cur[last.i] # Prev[last.i]
    /\ Prev[GlobalIndex(t, n, num_nodes(integrator))] # 0

\* the global index of node 0 of the time step of the latest _sdc_step
NodeZero == last.t * (num_nodes_ - 1)

\* C27: the value _sdc_step uses as node 0 of step t, as u_{n-1} for n = 1, as
\* first quadrature input and as u_0 of the residual, is the running iteration's
\* value at index t*(N-1); for t > 0 the running iteration has written that
\* index once, as final node of step t-1, and for t = 0 it is the problem's
\* initial value.
C27_StepStartsFromCurrent ==
    StepDone =>
        /\ last.i0 = NodeZero
        /\ last.integrate_values[0] = Cur[NodeZero]
        /\ last.residual_values[0] = Cur[NodeZero]
        /\ (last.n = 1 /\ last.path = "explicit") =>
               last.value = Cur[NodeZero]
                            + last.dt * (evaluate(problem, last.t0, Cur[NodeZero], "none")
                                         - evaluate(problem, last.t0, Prev[NodeZero], "none"))
                            + last.dI * last.integral
        /\ states[Len(states)].residual[last.i] =
               Abs(Cur[NodeZero] + last.dI * last.residual_integral - Cur[last.i])
        /\ last.t > 0 =>
               /\ Cardinality({k \in 1..Len(writes) : writes[k] = NodeZero}) = 1
               /\ writes[NodeZero] = NodeZero
        /\ last.t = 0 => Cur[NodeZero] = problem.initial_value

\* the first node of the second time step has been computed, explicitly, from
\* a final node of the first step that differs from the previous iteration's
C27_Witness ==
    /\ StepDone
    /\ last.t >= 1
    /\ last.n = 1
    /\ last.path = "explicit"
    /\ Cur[NodeZero] # Prev[NodeZero]
    /\ evaluate(problem, last.t0, Cur[NodeZero], "none")
           # evaluate(problem, last.t0, Prev[NodeZero], "none")

\* the time argument of the evaluations of F of the latest _sdc_step, by local
\* node: the step has one argument for all of them
EvalTimes == [j \in 0..(num_nodes_ - 1) |-> last.eval_time]

\* C29: the evaluations of F that _sdc_step makes for the quadrature input and
\* for the residual integral of step t use, for local node j, the time point
\* of global index t*(N-1)+j: different nodes get different arguments, all of
\* them inside the interval of step t.
C29_EvaluatedAtNodeTimes ==
    StepDone =>
        \A j \in 0..(num_nodes_ - 1) :
            /\ EvalTimes[j] = time_points.nodes[NodeZero + j]
            /\ \A k \in 0..(num_nodes_ - 1) : k # j => EvalTimes[k] # EvalTimes[j]
            /\ time_points.nodes[NodeZero] <= EvalTimes[j]
            /\ EvalTimes[j] <= time_points.nodes[NodeZero + num_nodes_ - 1]

\* ------------------------------------------------------------------------
\* Two Sdc solvers side by side
\* ------------------------------------------------------------------------
\* the solver objects
Solvers == {"A", "B"}

\* the states one solver collects
MaxPairStates == 3

\* IIterativeTimeSolver.init(problem, integrator): the solver keeps the
\* integrator object it is handed, here the default argument of Sdc.init
KeepIntegrator(solver) == [solver EXCEPT !.integrator = "default"]

\* property num_nodes of a solver: the node count of its integrator
PairNumNodes(x) ==
    IF solvers[x].integrator = "none" THEN None
    ELSE Some(num_nodes(shared.integrator))

\* Sdc.State(): the sizes of the arrays of a new state, taken from the class
\* attribute
NewStateSizes(class_num_points) ==
    [solution |-> class_num_points, error |-> Some(class_num_points),
     residual |-> Some(class_num_points)]

\* x.init(problem, num_time_steps=kw_num_time_steps, num_nodes=kw_num_nodes)
\* without an integrator argument
pair_init(x, kw_num_time_steps, kw_num_nodes) ==
    /\ solvers[x].integrator = "none"
    /\ LET npoints == NumPoints(kw_num_time_steps, kw_num_nodes)
           initial == [NewStateSizes(npoints) EXCEPT
                          !.solution = npoints, !.error = None, !.residual = None]
       IN  /\ solvers' = [solvers EXCEPT ![x] =
                  [KeepIntegrator(@) EXCEPT
                      !.num_time_steps = kw_num_time_steps,
                      !.num_nodes_ = kw_num_nodes,
                      !.num_points = npoints,
                      !.deltas_n = NumPoints(kw_num_time_steps, kw_num_nodes),
                      !.states = Append(@, initial)]]
           /\ shared' = [State_num_points |-> npoints,
                         integrator |-> [nodes_type |-> [num_nodes |-> kw_num_nodes]]]
    /\ pair_call' = [solver |-> x, method |-> "init", raised |-> FALSE]
    /\ UNCHANGED beside_pair

\* the sweep of one iteration stays inside the arrays it indexes: the time
\* points and the solution of the solver, and the residual of the new state
SweepInRange(solver, num, sizes) ==
    LET top == solver.num_time_steps * (num - 1)
    IN  /\ num - 1 < solver.deltas_n
        /\ top < solver.num_points
        /\ top < sizes.solution
        /\ top < sizes.residual[1]

\* x.run() with an iteration cap of one: a new state whose solution is a copy
\* of the previous one, the sweep, and the threshold check when the sweep
\* went through
pair_run(x) ==
    /\ Len(solvers[x].states) < MaxPairStates
    /\ IF solvers[x].integrator = "none"
       THEN \* no problem yet: the first statement of run() raises
            /\ pair_call' = [solver |-> x, method |-> "run", raised |-> TRUE]
            /\ UNCHANGED <<solvers, shared>>
       ELSE IF solvers[x].reached
       THEN /\ pair_call' = [solver |-> x, method |-> "run", raised |-> FALSE]
            /\ UNCHANGED <<solvers, shared>>
       ELSE LET previous == solvers[x].states[Len(solvers[x].states)]
                sizes == [NewStateSizes(shared.State_num_points) EXCEPT
                              !.solution = previous.solution]
                swept == SweepInRange(solvers[x], num_nodes(shared.integrator), sizes)
            IN  /\ solvers' = [solvers EXCEPT ![x].states = Append(@, sizes),
                                              ![x].reached = swept]
                /\ pair_call' = [solver |-> x, method |-> "run", raised |-> ~swept]
                /\ UNCHANGED shared
    /\ UNCHANGED beside_pair

NextPair ==
    \/ \E x \in Solvers, kw_num_time_steps \in 1..MaxSteps, kw_num_nodes \in 2..MaxNodes :
          pair_init(x, kw_num_time_steps, kw_num_nodes)
    \/ \E x \in Solvers : pair_run(x)

SpecPair == Init /\ [][NextPair]_vars

\* C28: whatever is called on the other solver, every state of a solver has
\* solution, residual and error arrays of length T*(N-1)+1 for the T and N the
\* solver was initialized with, and its num_nodes stays N.
C28_InstancesIndependent ==
    \A x \in Solvers :
        solvers[x].integrator # "none" =>
            /\ \A k \in 1..Len(solvers[x].states) :
                  LET sizes == solvers[x].states[k]
                      own == NumPoints(solvers[x].num_time_steps, solvers[x].num_nodes_)
                  IN  /\ sizes.solution = own
                      /\ sizes.residual # None => sizes.residual[1] = own
                      /\ sizes.error # None => sizes.error[1] = own
            /\ PairNumNodes(x) = Some(solvers[x].num_nodes_)

\* ------------------------------------------------------------------------
\* pySDC prototype: SDC
\* ------------------------------------------------------------------------
\* the values handed to the setters reach from -1 up to this one
MaxSetting == 3

\* counts and time ranges handed to the setters
Settings == (0 - 1)..MaxSetting
Ranges == {<<a, b>> : a \in 0..MaxSetting, b \in 0..MaxSetting}

\* time_steps.setter: the checked value goes to __timeSteps
SetTimeSteps(obj, value) ==
    IF value <= 0
    THEN [obj |-> obj, raised |-> "ValueError"]
    ELSE [obj |-> [obj EXCEPT !.SDC__timeSteps = Some(value)], raised |-> "none"]

\* num_substeps.setter: the checked value goes to __numSubsteps
SetNumSubsteps(obj, value) ==
    IF value <= 0
    THEN [obj |-> obj, raised |-> "ValueError"]
    ELSE [obj |-> [obj EXCEPT !.SDC__numSubsteps = Some(value)], raised |-> "none"]

\* time_range.setter: the checked pair goes to __timeRange
SetTimeRange(obj, value) ==
    IF value[2] <= value[1]
    THEN [obj |-> obj, raised |-> "ValueError"]
    ELSE [obj |-> [obj EXCEPT !.SDC__timeRange = Some(value)], raised |-> "none"]

\* solve(): the attributes its loops and its step width are built from
Solve(obj) ==
    [time_steps |-> obj.timeSteps,
     num_substeps |-> obj.numSubsteps,
     time_range |-> obj.timeRange,
     dt_n |-> obj.timeRange[2] - (obj.timeRange[1] \div obj.timeSteps)]

set_time_steps(value) ==
    /\ prototype' = SetTimeSteps(prototype, value).obj
    /\ prototype_call' = [method |-> "time_steps", value |-> Some(value),
                          raised |-> SetTimeSteps(prototype, value).raised, swept |-> None]
    /\ UNCHANGED beside_prototype

set_num_substeps(value) ==
    /\ prototype' = SetNumSubsteps(prototype, value).obj
    /\ prototype_call' = [method |-> "num_substeps", value |-> Some(value),
                          raised |-> SetNumSubsteps(prototype, value).raised, swept |-> None]
    /\ UNCHANGED beside_prototype

set_time_range(value) ==
    /\ prototype' = SetTimeRange(prototype, value).obj
    /\ prototype_call' = [method |-> "time_range", value |-> Some(value),
                          raised |-> SetTimeRange(prototype, value).raised, swept |-> None]
    /\ UNCHANGED beside_prototype

solve ==
    /\ prototype_call' = [method |-> "solve", value |-> None, raised |-> "none",
                          swept |-> Some(Solve(prototype))]
    /\ UNCHANGED <<prototype, beside_prototype>>

NextPrototype ==
    \/ \E value \in Settings : set_time_steps(value)
    \/ \E value \in Settings : set_num_substeps(value)
    \/ \E value \in Ranges : set_time_range(value)
    \/ solve

SpecPrototype == Init /\ [][NextPrototype]_vars

\* C30: the values the setters time_steps, num_substeps and time_range have
\* accepted are the ones solve() works with, a solve() after
\* sdc.time_steps = k with k > 0 sweeps k time steps, and solve() never works
\* with a value a setter would reject.
C30_SolveUsesAcceptedValues ==
    prototype_call.method = "solve" =>
        LET swept == prototype_call.swept[1]
        IN  /\ prototype.SDC__timeSteps # None =>
                   swept.time_steps = prototype.SDC__timeSteps[1]
            /\ prototype.SDC__numSubsteps # None =>
                   swept.num_substeps = prototype.SDC__numSubsteps[1]
            /\ prototype.SDC__timeRange # None =>
                   swept.time_range = prototype.SDC__timeRange[1]
            /\ SetTimeSteps(prototype, swept.time_steps).raised = "none"
            /\ SetNumSubsteps(prototype, swept.num_substeps).raised = "none"
            /\ SetTimeRange(prototype, swept.time_range).raised = "none"

====
